---- MODULE Spec2Model ----
(***************************************************************************)
(* State-machine model of mrt-state-to-state: the per-peer BGP session     *)
(* state (src/src/bgp_state.rs), the MRT processor that drives it from a   *)
(* bview snapshot and from update files (src/src/mrt_processor.rs), and    *)
(* the announcement tracker (src/src/announcement.rs).                     *)
(*                                                                         *)
(* Option<T> is modelled as a sequence: None is <<>>, Some(x) is <<x>>.    *)
(* HashMap<K, V> is modelled as a function whose DOMAIN is the key set.    *)
(* DateTime<Utc> values are whole seconds since the epoch: every MRT       *)
(* record of the model carries microsecond_timestamp = None, and an f64    *)
(* holds a whole number of seconds of this size exactly.                   *)
(***************************************************************************)
EXTENDS Integers, Sequences, FiniteSets, TLC

VARIABLES
    current_state,            \* MrtProcessor.current_state : HashMap<BgpPeer, BgpState>
    default_hold_time,        \* MrtProcessor.default_hold_time : u16
    send_hold_time_multiple,  \* MrtProcessor.send_hold_time_multiple : Option<u16>
    overflow_checks,          \* build profile: TRUE when u16 overflow panics (debug)
    pc,                       \* position of the single call stack
    last_ts,                  \* process_update_file: local last_ts : Option<DateTime>
    record,                   \* the record / element consumed by the latest loop iteration
    nrecords,                 \* records and elements consumed so far
    result,                   \* value returned by the latest finished call
    bview_elems,              \* history: the elements process_bview has consumed
    session,                  \* a BgpState driven through its methods directly
    session_before,           \* that BgpState when the latest method call began
    session_call,             \* the latest method call and its arguments
    session_pc,               \* "ready", or "panicked" once a call has panicked
    session_max_ts,           \* history: the greatest timestamp handed to that BgpState
    session_open_hold,        \* history: the hold time of its latest open_message
    announement_start,        \* AnnouncementTracker.announement_start
    tracker_call,             \* latest AnnouncementTracker call and its arguments
    tracker_ret               \* value returned by that call

engine_vars == <<current_state, default_hold_time, send_hold_time_multiple,
                 overflow_checks, pc, last_ts, record, nrecords, result,
                 bview_elems>>
session_vars == <<session, session_before, session_call, session_pc,
                  session_max_ts, session_open_hold>>
tracker_vars == <<announement_start, tracker_call, tracker_ret>>
vars == <<engine_vars, session_vars, tracker_vars>>

---------------------------------------------------------------------------
(* Bounds of the model.                                                    *)

\* records and elements the decoder hands to the processor in one run
MaxRecords == 3

---------------------------------------------------------------------------
(* Option and HashMap helpers.                                             *)

None == <<>>
Some(x) == <<x>>
IsSome(o) == o /= None
Unwrap(o) == o[1]

\* HashMap::new()
EmptyMap == [k \in {} |-> k]
\* HashMap::insert(k, v): adds the entry or replaces the one stored for k
MapInsert(m, k, v) == [x \in (DOMAIN m) \cup {k} |-> IF x = k THEN v ELSE m[x]]
\* HashMap::remove(k): removes the entry when present, nothing otherwise
MapRemove(m, k) == [x \in (DOMAIN m) \ {k} |-> m[x]]
\* HashMap::get(k).cloned()
MapGet(m, k) == IF k \in DOMAIN m THEN Some(m[k]) ELSE None

\* Ord::max on DateTime
MaxTs(a, b) == IF a >= b THEN a ELSE b

\* u16 arithmetic
U16 == 65536

---------------------------------------------------------------------------
(* Input domains.                                                          *)

\* BgpPeer { address, peer_as }
PeerP == [address |-> "192.0.2.1", peer_as |-> 64496]
PeerQ == [address |-> "192.0.2.2", peer_as |-> 64497]
Peers == {PeerP, PeerQ}

Prefix1 == "10.0.0.0/24"
Prefix2 == "192.0.2.0/24"
Prefixes == {Prefix1, Prefix2}

\* record timestamps (common_header.timestamp, seconds)
Times == {200, 205, 300, 600}
\* timestamps handed to the methods of a single BgpState
SessionTimes == {200, 205, 600}

\* AS paths carried by announcements
Path1 == Some(<<64496>>)
Path2 == Some(<<64496, 64511>>)
AsPaths == {Path1, Path2}

\* BgpOpenMessage { hold_time, opt_params }
OpenMessages == {[hold_time |-> 90, opt_params |-> <<>>],
                 [hold_time |-> 30000, opt_params |-> <<"capability">>]}

\* bgpkit_parser::models::BgpState, by its code in a BGP4MP state change
BgpKitStates == 1..6

\* MrtProcessor::new(default_hold_time, send_hold_time_multiple) as it is
\* called by MrtProcessor::default() and by main(), under both build profiles
Configs == {[default_hold_time |-> 180, multiple |-> None, checks |-> FALSE],
            [default_hold_time |-> 180, multiple |-> Some(3), checks |-> FALSE],
            [default_hold_time |-> 180, multiple |-> Some(3), checks |-> TRUE]}

---------------------------------------------------------------------------
(* bgp_state.rs: ConnectionState, Announcement, BgpState.                  *)

ConnectionState == {"Idle", "Connect", "Active", "OpenSent", "OpenConfirm",
                    "Established"}

\* BgpKitStateExt::to_connection_state
to_connection_state(s) ==
    CASE s = 1 -> "Idle"
      [] s = 2 -> "Connect"
      [] s = 3 -> "Active"
      [] s = 4 -> "OpenSent"
      [] s = 5 -> "OpenConfirm"
      [] s = 6 -> "Established"

\* timestamp_to_datetime: `timestamp as i64` seconds plus the fractional part
\* as nanoseconds; the fractional part of a whole number of seconds is 0
timestamp_to_datetime(timestamp) == timestamp

\* DateTimeExt::to_timestamp_f64: seconds plus subsec nanos / 1e9 (nanos = 0)
to_timestamp_f64(dt) == dt

\* BgpElem as built by the decoder: the fields the processor reads
BgpElem(type, ts, peer, prefix, path) ==
    [elem_type |-> type, timestamp |-> ts, peer_ip |-> peer.address,
     peer_asn |-> peer.peer_as, prefix |-> prefix, as_path |-> path,
     origin |-> None, local_pref |-> None, next_hop |-> None, med |-> None,
     communities |-> None, only_to_customer |-> None]

\* BgpElem::is_announcement
is_announcement(elem) == elem.elem_type = "ANNOUNCE"

\* Announcement::from_bgp_elem: Err for a withdrawal, else Ok(Announcement)
from_bgp_elem(elem) ==
    IF ~is_announcement(elem)
    THEN [ok |-> FALSE, err |-> "Cannot create announcement from withdrawal element"]
    ELSE [ok |-> TRUE,
          value |-> [timestamp |-> timestamp_to_datetime(elem.timestamp),
                     as_path |-> elem.as_path,
                     origin |-> elem.origin,
                     local_pref |-> elem.local_pref,
                     next_hop |-> elem.next_hop,
                     med |-> elem.med,
                     communities |-> elem.communities,
                     only_to_customer |-> elem.only_to_customer]]

\* BgpState::new
BgpState_new ==
    [connection_state |-> "Idle",
     last_message_timestamp |-> None,
     prefix_announcements |-> EmptyMap,
     hold_time |-> None,
     options |-> None]

\* update_connection_state with the clear after the match left out and the
\* (_, Established) arm only logging: a session coming up keeps its old routes
update_connection_state_keeps_rib(s, ts, new_state) ==
    LET matched ==
            IF new_state = "Established"
            THEN s
            ELSE [s EXCEPT !.prefix_announcements = EmptyMap]
    IN  [matched EXCEPT !.connection_state = new_state,
                        !.last_message_timestamp = Some(ts)]

\* update_connection_state dropping the negotiated hold time when the session
\* goes to Idle
update_connection_state_forgets_hold_time(s, ts, new_state) ==
    [s EXCEPT !.prefix_announcements = EmptyMap,
              !.connection_state = new_state,
              !.last_message_timestamp = Some(ts),
              !.hold_time = IF new_state = "Idle" THEN None ELSE s.hold_time]

\* update_connection_state without its last statement: the timestamp of the
\* session is left as it was
update_connection_state_leaves_timestamp(s, ts, new_state) ==
    [s EXCEPT !.prefix_announcements = EmptyMap,
              !.connection_state = new_state]

\* BgpState::update_connection_state: the match clears the RIB in every arm
\* but (Established, Established); the statement after the match clears it
\* again, whatever the arm
update_connection_state(s, ts, new_state) ==
    LET matched ==
            IF s.connection_state = "Established" /\ new_state = "Established"
            THEN s
            ELSE [s EXCEPT !.prefix_announcements = EmptyMap]
    IN  [matched EXCEPT !.prefix_announcements = EmptyMap,
                        !.connection_state = new_state,
                        !.last_message_timestamp = Some(ts)]

\* open_message keeping a hold time that is already stored
\* (hold_time.get_or_insert(..) where the code assigns Some(msg.hold_time))
open_message_keeps_hold_time(s, ts, msg) ==
    [update_connection_state(s, ts, "OpenSent")
        EXCEPT !.hold_time = IF IsSome(s.hold_time) THEN s.hold_time
                             ELSE Some(msg.hold_time),
               !.options = Some(msg.opt_params)]

\* BgpState::open_message
open_message(s, ts, msg) ==
    [update_connection_state(s, ts, "OpenSent")
        EXCEPT !.hold_time = Some(msg.hold_time),
               !.options = Some(msg.opt_params)]

\* update_last_message_timestamp storing the timestamp it is given, as
\* update_connection_state does, instead of the later of the two
update_last_message_timestamp_overwrites(s, timestamp) ==
    [s EXCEPT !.last_message_timestamp = Some(timestamp)]

\* BgpState::update_last_message_timestamp
update_last_message_timestamp(s, timestamp) ==
    [s EXCEPT !.last_message_timestamp =
        IF IsSome(s.last_message_timestamp)
        THEN Some(MaxTs(Unwrap(s.last_message_timestamp), timestamp))
        ELSE Some(timestamp)]

\* BgpState::update_prefix; from_bgp_elem(elem).unwrap() panics on a withdrawal,
\* before the session is touched
update_prefix_panics(elem) == ~from_bgp_elem(elem).ok

\* update_prefix keeping the stored route when it is newer than the one it is
\* given
update_prefix_keeps_newer(s, elem) ==
    LET prefix == elem.prefix
        announcement == from_bgp_elem(elem).value
        touched == update_last_message_timestamp(s, announcement.timestamp)
        rib == touched.prefix_announcements
    IN  IF prefix \in DOMAIN rib /\ rib[prefix].timestamp > announcement.timestamp
        THEN touched
        ELSE [touched EXCEPT !.prefix_announcements =
                 MapInsert(rib, prefix, announcement)]

update_prefix(s, elem) ==
    LET prefix == elem.prefix
        announcement == from_bgp_elem(elem).value
        touched == update_last_message_timestamp(s, announcement.timestamp)
    IN  [touched EXCEPT !.prefix_announcements =
            MapInsert(touched.prefix_announcements, prefix, announcement)]

\* withdraw_prefix calling clear() where it should call remove(&prefix)
withdraw_prefix_clears(s, ts, prefix) ==
    LET touched == update_last_message_timestamp(s, timestamp_to_datetime(ts))
    IN  [touched EXCEPT !.prefix_announcements = EmptyMap]

\* BgpState::withdraw_prefix
withdraw_prefix(s, ts, prefix) ==
    LET touched == update_last_message_timestamp(s, timestamp_to_datetime(ts))
    IN  [touched EXCEPT !.prefix_announcements =
            MapRemove(touched.prefix_announcements, prefix)]

---------------------------------------------------------------------------
(* Decoder output: the MRT records of an update file, the elements of a    *)
(* bview.                                                                  *)

CommonHeader(t) == [timestamp |-> t, microsecond_timestamp |-> None]

\* Bgp4MpEnum::Message carrying a BgpMessage
MessageRecord(t, peer, bgp_message) ==
    [common_header |-> CommonHeader(t),
     message |-> [type |-> "Bgp4MpMessage", peer_ip |-> peer.address,
                  peer_asn |-> peer.peer_as, bgp_message |-> bgp_message]]

\* Bgp4MpEnum::StateChange
StateChangeRecord(t, peer, new_state) ==
    [common_header |-> CommonHeader(t),
     message |-> [type |-> "Bgp4MpStateChange", peer_addr |-> peer.address,
                  peer_asn |-> peer.peer_as, new_state |-> new_state]]

\* a record that is not Bgp4Mp: a table dump entry, as found in a bview
TableDumpRecord(t) ==
    [common_header |-> CommonHeader(t), message |-> [type |-> "TableDumpV2"]]

Announced(prefix, path) == [prefix |-> prefix, as_path |-> path]

\* BgpMessage::Open
Open(m) == [type |-> "Open", open |-> m]
\* BgpMessage::Update: announced prefixes with their attributes, withdrawn prefixes
Update(announced, withdrawn) ==
    [type |-> "Update", update |-> [announced |-> announced, withdrawn |-> withdrawn]]
KeepAlive == [type |-> "KeepAlive"]
Notification == [type |-> "Notification"]

\* what PeerP sends: every kind of message, at every time
MessagesP ==
    {Open(m) : m \in OpenMessages}
    \cup {Update(<<Announced(Prefix1, Path1)>>, <<>>),
          Update(<<Announced(Prefix2, Path2)>>, <<Prefix1>>),
          Update(<<>>, <<Prefix1>>),
          KeepAlive, Notification}
StateChangesP == BgpKitStates

\* what PeerQ sends: enough to hold routes and a session beside PeerP's
MessagesQ == {Notification, Update(<<Announced(Prefix1, Path1)>>, <<>>), KeepAlive}
StateChangesQ == {6}
TimesQ == {200, 600}

UpdateFileRecords ==
    {MessageRecord(t, PeerP, m) : t \in Times, m \in MessagesP}
    \cup {StateChangeRecord(t, PeerP, n) : t \in Times, n \in StateChangesP}
    \cup {MessageRecord(t, PeerQ, m) : t \in TimesQ, m \in MessagesQ}
    \cup {StateChangeRecord(t, PeerQ, n) : t \in TimesQ, n \in StateChangesQ}
    \cup {TableDumpRecord(600)}

BviewElems ==
    {BgpElem("ANNOUNCE", t, PeerP, Prefix1, Path1) : t \in Times}
    \cup {BgpElem("ANNOUNCE", 200, PeerP, Prefix2, Path2),
          BgpElem("WITHDRAW", 205, PeerP, Prefix1, None),
          BgpElem("ANNOUNCE", 200, PeerQ, Prefix1, Path1)}

\* util::mrt_record_ts, on a header whose microsecond_timestamp is None
mrt_record_ts(r) == r.common_header.timestamp

\* Elementor::bgp_update_to_elems: one ANNOUNCE element per announced prefix,
\* then one WITHDRAW element per withdrawn prefix, all at the record's timestamp
bgp_update_to_elems(update, timestamp, peer) ==
    [i \in 1..Len(update.announced) |->
        BgpElem("ANNOUNCE", timestamp, peer, update.announced[i].prefix,
                update.announced[i].as_path)]
    \o [i \in 1..Len(update.withdrawn) |->
        BgpElem("WITHDRAW", timestamp, peer, update.withdrawn[i], None)]

---------------------------------------------------------------------------
(* mrt_processor.rs: MrtProcessor.                                         *)

\* BgpPeer::from_elem
from_elem(elem) == [address |-> elem.peer_ip, peer_as |-> elem.peer_asn]

\* current_state.entry(peer).or_insert_with(BgpState::new), the entry's value
entry_or_insert(map, peer) ==
    IF peer \in DOMAIN map THEN map[peer] ELSE BgpState_new

\* the match on elem.elem_type, in process_bview and in the Update arm
apply_elem(s, elem) ==
    IF elem.elem_type = "ANNOUNCE"
    THEN update_prefix(s, elem)
    ELSE withdraw_prefix(s, elem.timestamp, elem.prefix)

\* `for elem in elements { ... }` of the Update arm
RECURSIVE apply_elems(_, _, _)
apply_elems(s, elements, i) ==
    IF i > Len(elements) THEN s
    ELSE apply_elems(apply_elem(s, elements[i]), elements, i + 1)

\* the peer a record of an update file is about
record_peer(r) ==
    IF r.message.type = "Bgp4MpMessage"
    THEN [address |-> r.message.peer_ip, peer_as |-> r.message.peer_asn]
    ELSE [address |-> r.message.peer_addr, peer_as |-> r.message.peer_asn]

\* the dispatch with the Notification arm doing what the KeepAlive arm does:
\* the session is not torn down
dispatch_notification_as_keepalive(peer_state, r, ts) ==
    IF r.message.type = "Bgp4MpStateChange"
    THEN update_connection_state(peer_state, ts,
                                 to_connection_state(r.message.new_state))
    ELSE LET msg == r.message.bgp_message IN
         CASE msg.type = "Open" -> open_message(peer_state, ts, msg.open)
           [] msg.type = "Update" ->
                apply_elems(peer_state,
                            bgp_update_to_elems(msg.update, to_timestamp_f64(ts),
                                                record_peer(r)), 1)
           [] msg.type \in {"KeepAlive", "Notification"} ->
                update_last_message_timestamp(peer_state, ts)

\* the body of `match msg.bgp_message` and of the StateChange arm: the peer's
\* session after the record
dispatch(peer_state, r, ts) ==
    IF r.message.type = "Bgp4MpStateChange"
    THEN update_connection_state(peer_state, ts,
                                 to_connection_state(r.message.new_state))
    ELSE LET msg == r.message.bgp_message IN
         CASE msg.type = "Open" -> open_message(peer_state, ts, msg.open)
           [] msg.type = "Update" ->
                apply_elems(peer_state,
                            bgp_update_to_elems(msg.update, to_timestamp_f64(ts),
                                                record_peer(r)), 1)
           [] msg.type = "KeepAlive" ->
                update_last_message_timestamp(peer_state, ts)
           [] msg.type = "Notification" ->
                update_connection_state(peer_state, ts, "Idle")

\* last_ts.map(|old| old.max(ts)).or_else(|| Some(ts))
advance_last_ts(old, ts) ==
    IF IsSome(old) THEN Some(MaxTs(Unwrap(old), ts)) ELSE Some(ts)

\* the hold time the sweep uses for a session
sweep_hold_time(s, default) ==
    IF IsSome(s.hold_time) THEN Unwrap(s.hold_time) ELSE default

\* send_hold_time_multiple.unwrap_or(1) * hold_time, before it is cut to u16
hold_time_product(s, default, multiple) ==
    (IF IsSome(multiple) THEN Unwrap(multiple) ELSE 1) * sweep_hold_time(s, default)

\* the u16 product: it wraps when the build does not check overflow
effective_hold_time(s, default, multiple) ==
    hold_time_product(s, default, multiple) % U16

\* the sweep without its `continue` for sessions in Idle
sweep_considers_idle_sessions(s) == IsSome(s.last_message_timestamp)

\* whether the sweep evaluates the hold timer of a session at all
sweep_considers(s) ==
    s.connection_state /= "Idle" /\ IsSome(s.last_message_timestamp)

\* the multiplication panics in a build with overflow checks
sweep_panics(s, default, multiple, checks) ==
    sweep_considers(s) /\ checks /\ hold_time_product(s, default, multiple) >= U16

\* `if last_message_ts < cutoff`, with cutoff = last_ts + effective_hold_time
hold_timer_expired(s, batch_ts, default, multiple) ==
    Unwrap(s.last_message_timestamp)
        < batch_ts + effective_hold_time(s, default, multiple)

\* one iteration of `for (peer, state) in self.current_state.iter_mut()`
sweep_peer(s, batch_ts, default, multiple) ==
    IF sweep_considers(s) /\ hold_timer_expired(s, batch_ts, default, multiple)
    THEN update_connection_state(s, batch_ts, "Idle")
    ELSE s

\* the orders in which a HashMap may yield its entries
IterationOrders(map) ==
    {o \in [1..Cardinality(DOMAIN map) -> DOMAIN map] :
        \A i, j \in DOMAIN o : i /= j => o[i] /= o[j]}

\* the sweep removing from the map the sessions whose hold timer has expired,
\* where the code resets them to Idle
sweep_from_drops_expired(map, order, i, batch_ts, default, multiple, checks) ==
    LET kept == {p \in DOMAIN map :
                    ~(/\ sweep_considers(map[p])
                      /\ hold_timer_expired(map[p], batch_ts, default, multiple))}
    IN  [map |-> [p \in kept |-> map[p]], panicked |-> FALSE]

\* the sweep loop from its i-th entry on: the map it leaves, and whether it
\* panicked on the way
RECURSIVE sweep_from(_, _, _, _, _, _, _)
sweep_from(map, order, i, batch_ts, default, multiple, checks) ==
    IF i > Len(order) THEN [map |-> map, panicked |-> FALSE]
    ELSE IF sweep_panics(map[order[i]], default, multiple, checks)
         THEN [map |-> map, panicked |-> TRUE]
         ELSE sweep_from([map EXCEPT ![order[i]] =
                             sweep_peer(map[order[i]], batch_ts, default, multiple)],
                         order, i + 1, batch_ts, default, multiple, checks)

---------------------------------------------------------------------------
(* The processor as a state machine.                                       *)

\* MrtProcessor::new
EngineInit(c) ==
    /\ current_state = EmptyMap
    /\ default_hold_time = c.default_hold_time
    /\ send_hold_time_multiple = c.multiple
    /\ overflow_checks = c.checks
    /\ pc = "ready"
    /\ last_ts = None
    /\ record = None
    /\ nrecords = 0
    /\ result = None
    /\ bview_elems = None

\* BgpState::new
SessionInit ==
    /\ session = BgpState_new
    /\ session_before = None
    /\ session_call = None
    /\ session_pc = "ready"
    /\ session_max_ts = None
    /\ session_open_hold = None

\* AnnouncementTracker::default
TrackerInit ==
    /\ announement_start = EmptyMap
    /\ tracker_call = None
    /\ tracker_ret = None

Init == (\E c \in Configs : EngineInit(c)) /\ SessionInit /\ TrackerInit

\* the processor as main() builds it, idle beside the component under test
MainConfig == [default_hold_time |-> 180, multiple |-> Some(3), checks |-> FALSE]
ComponentInit == EngineInit(MainConfig) /\ SessionInit /\ TrackerInit

config_vars == <<default_hold_time, send_hold_time_multiple, overflow_checks>>
other_vars == <<session_vars, tracker_vars>>

\* process_bview without its self.current_state.clear(): the sessions of the
\* files processed before stay in the map
BeginBview_keeps_state ==
    /\ pc = "ready"
    /\ last_ts' = None
    /\ record' = None
    /\ \E opened \in BOOLEAN :
        IF opened
        THEN pc' = "bview" /\ result' = None
        ELSE pc' = "ready" /\ result' = Some("Err")
    /\ bview_elems' = Some(<<>>)
    /\ UNCHANGED <<current_state, nrecords, config_vars, other_vars>>

\* process_bview up to its loop: the map is cleared, then the parser is built
BeginBview ==
    /\ pc = "ready"
    /\ current_state' = EmptyMap
    /\ last_ts' = None
    /\ record' = None
    /\ \E opened \in BOOLEAN :
        IF opened
        THEN pc' = "bview" /\ result' = None
        ELSE pc' = "ready" /\ result' = Some("Err")
    /\ bview_elems' = Some(<<>>)
    /\ UNCHANGED <<nrecords, config_vars, other_vars>>

\* one iteration of `for elem in parser` in process_bview
BviewElem(elem) ==
    /\ pc = "bview"
    /\ nrecords < MaxRecords
    /\ nrecords' = nrecords + 1
    /\ LET peer == from_elem(elem)
           peer_state == entry_or_insert(current_state, peer)
       IN  current_state' = MapInsert(current_state, peer,
                                         apply_elem(peer_state, elem))
    /\ record' = Some(elem)
    /\ bview_elems' = Some(Append(Unwrap(bview_elems), elem))
    /\ UNCHANGED <<pc, last_ts, result, config_vars, other_vars>>

\* process_bview after its loop
EndBview ==
    /\ pc = "bview"
    /\ pc' = "ready"
    /\ result' = Some("Ok")
    /\ UNCHANGED <<current_state, last_ts, record, nrecords, bview_elems,
                   config_vars, other_vars>>

\* process_update_file up to its loop: the parser is built, last_ts is None
BeginUpdateFile ==
    /\ pc = "ready"
    /\ last_ts' = None
    /\ record' = None
    /\ \E opened \in BOOLEAN :
        IF opened
        THEN pc' = "update" /\ result' = None
        ELSE pc' = "ready" /\ result' = Some("Err")
    /\ bview_elems' = None
    /\ UNCHANGED <<current_state, nrecords, config_vars, other_vars>>

\* the record loop with `continue` in its `_ =>` arm: a record that is not
\* Bgp4Mp is skipped and the file goes on
UpdateRecord_skips_unsupported(r) ==
    /\ pc = "update"
    /\ nrecords < MaxRecords
    /\ nrecords' = nrecords + 1
    /\ record' = Some(r)
    /\ LET ts == mrt_record_ts(r) IN
        /\ last_ts' = advance_last_ts(last_ts, ts)
        /\ IF r.message.type \in {"Bgp4MpMessage", "Bgp4MpStateChange"}
           THEN LET peer == record_peer(r)
                    peer_state == entry_or_insert(current_state, peer)
                IN  current_state' = MapInsert(current_state, peer,
                                               dispatch(peer_state, r, ts))
           ELSE UNCHANGED current_state
    /\ UNCHANGED <<pc, result, bview_elems, config_vars, other_vars>>

\* one iteration of `for record in parser.into_record_iter()`
UpdateRecord(r) ==
    /\ pc = "update"
    /\ nrecords < MaxRecords
    /\ nrecords' = nrecords + 1
    /\ record' = Some(r)
    /\ LET ts == mrt_record_ts(r) IN
        /\ last_ts' = advance_last_ts(last_ts, ts)
        /\ IF r.message.type \in {"Bgp4MpMessage", "Bgp4MpStateChange"}
           THEN LET peer == record_peer(r)
                    peer_state == entry_or_insert(current_state, peer)
                IN  /\ current_state' = MapInsert(current_state, peer,
                                                  dispatch(peer_state, r, ts))
                    /\ UNCHANGED <<pc, result>>
           ELSE /\ pc' = "ready"
                /\ result' = Some("Err")
                /\ UNCHANGED current_state
    /\ UNCHANGED <<bview_elems, config_vars, other_vars>>

\* the end of process_update_file sweeping with last_ts.unwrap_or_default()
\* where the code has `if let Some(last_ts) = last_ts`: a file without records
\* is swept against the epoch
EndUpdateFile_sweeps_empty_file ==
    /\ pc = "update"
    /\ \E order \in IterationOrders(current_state) :
          LET batch_ts == IF IsSome(last_ts) THEN Unwrap(last_ts) ELSE 0
              swept == sweep_from(current_state, order, 1, batch_ts,
                                  default_hold_time, send_hold_time_multiple,
                                  overflow_checks)
          IN  /\ current_state' = swept.map
              /\ IF swept.panicked
                 THEN pc' = "panicked" /\ result' = None
                 ELSE pc' = "ready" /\ result' = Some("Ok")
    /\ UNCHANGED <<last_ts, record, nrecords, bview_elems, config_vars,
                   other_vars>>

\* process_update_file after its loop: the hold-timer sweep, then Ok(())
EndUpdateFile ==
    /\ pc = "update"
    /\ IF IsSome(last_ts)
       THEN \E order \in IterationOrders(current_state) :
              LET swept == sweep_from(current_state, order, 1, Unwrap(last_ts),
                                      default_hold_time, send_hold_time_multiple,
                                      overflow_checks)
              IN  /\ current_state' = swept.map
                  /\ IF swept.panicked
                     THEN pc' = "panicked" /\ result' = None
                     ELSE pc' = "ready" /\ result' = Some("Ok")
       ELSE /\ pc' = "ready"
            /\ result' = Some("Ok")
            /\ UNCHANGED current_state
    /\ UNCHANGED <<last_ts, record, nrecords, bview_elems, config_vars,
                   other_vars>>

Next ==
    \/ BeginBview
    \/ \E elem \in BviewElems : BviewElem(elem)
    \/ EndBview
    \/ BeginUpdateFile
    \/ \E r \in UpdateFileRecords : UpdateRecord(r)
    \/ EndUpdateFile

Spec == Init /\ [][Next]_vars

---------------------------------------------------------------------------
(* A single BgpState driven through its public methods, in any order and   *)
(* with any arguments.                                                     *)

SessionElems ==
    {BgpElem("ANNOUNCE", t, PeerP, Prefix1, Path1) : t \in SessionTimes}
    \cup {BgpElem("ANNOUNCE", 205, PeerP, Prefix1, Path2),
          BgpElem("ANNOUNCE", 200, PeerP, Prefix2, Path2),
          BgpElem("ANNOUNCE", 600, PeerP, Prefix2, Path2),
          BgpElem("WITHDRAW", 205, PeerP, Prefix1, None),
          BgpElem("WITHDRAW", 600, PeerP, Prefix2, None)}

SessionStep(call, ts, after) ==
    /\ session_pc = "ready"
    /\ session_call' = Some(call)
    /\ session_before' = Some(session)
    /\ session_max_ts' = advance_last_ts(session_max_ts, ts)
    /\ session_open_hold' = IF call.op = "open_message"
                            THEN Some(call.msg.hold_time)
                            ELSE session_open_hold
    /\ session' = after
    /\ session_pc' = "ready"
    /\ UNCHANGED <<engine_vars, tracker_vars>>

CallUpdateConnectionState(ts, new_state) ==
    SessionStep([op |-> "update_connection_state", ts |-> ts, new_state |-> new_state],
                ts, update_connection_state(session, ts, new_state))

CallOpenMessage(ts, msg) ==
    SessionStep([op |-> "open_message", ts |-> ts, msg |-> msg],
                ts, open_message(session, ts, msg))

CallUpdateLastMessageTimestamp(timestamp) ==
    SessionStep([op |-> "update_last_message_timestamp", ts |-> timestamp],
                timestamp, update_last_message_timestamp(session, timestamp))

CallUpdatePrefix(elem) ==
    IF update_prefix_panics(elem)
    THEN /\ session_pc = "ready"
         /\ session_call' = Some([op |-> "update_prefix", elem |-> elem])
         /\ session_before' = Some(session)
         /\ session_pc' = "panicked"
         /\ UNCHANGED <<session, session_max_ts, session_open_hold, engine_vars,
                        tracker_vars>>
    ELSE SessionStep([op |-> "update_prefix", elem |-> elem],
                     elem.timestamp, update_prefix(session, elem))

CallWithdrawPrefix(ts, prefix) ==
    SessionStep([op |-> "withdraw_prefix", ts |-> ts, prefix |-> prefix],
                ts, withdraw_prefix(session, ts, prefix))

SessionNext ==
    \/ \E ts \in SessionTimes, new_state \in ConnectionState :
          CallUpdateConnectionState(ts, new_state)
    \/ \E ts \in SessionTimes, msg \in OpenMessages : CallOpenMessage(ts, msg)
    \/ \E ts \in SessionTimes : CallUpdateLastMessageTimestamp(ts)
    \/ \E elem \in SessionElems : CallUpdatePrefix(elem)
    \/ \E ts \in SessionTimes, prefix \in Prefixes : CallWithdrawPrefix(ts, prefix)

SessionSpec == ComponentInit /\ [][SessionNext]_vars

---------------------------------------------------------------------------
(* announcement.rs: AnnouncementTracker.                                   *)

\* PeerPrefix::new
PeerPrefix(peer_ip, prefix) == [peer_ip |-> peer_ip, prefix |-> prefix]

PeerIps == {PeerP.address, PeerQ.address}
TrackerTimes == {10, 20, 30}

\* add_announcement keeping the start of a run that is already active
\* (entry().or_insert(ts) where the code calls insert(key, ts))
add_announcement_keeps_start(map, peer_ip, prefix, ts) ==
    LET key == PeerPrefix(peer_ip, prefix)
        initial == MapGet(map, key)
    IN  [map |-> IF key \in DOMAIN map THEN map ELSE MapInsert(map, key, ts),
         ret |-> initial]

\* AnnouncementTracker::add_announcement: the map after the call, and the
\* value returned
add_announcement(map, peer_ip, prefix, ts) ==
    LET key == PeerPrefix(peer_ip, prefix)
        initial == MapGet(map, key)
    IN  [map |-> MapInsert(map, key, ts), ret |-> initial]

\* withdraw_announcement reading the start with get() and leaving it in the map
withdraw_announcement_peeks(map, peer_ip, prefix) ==
    LET key == PeerPrefix(peer_ip, prefix)
    IN  [map |-> map, ret |-> MapGet(map, key)]

\* AnnouncementTracker::withdraw_announcement: HashMap::remove returns the
\* value it removed
withdraw_announcement(map, peer_ip, prefix) ==
    LET key == PeerPrefix(peer_ip, prefix)
    IN  [map |-> MapRemove(map, key), ret |-> MapGet(map, key)]

AddAnnouncement(peer_ip, prefix, ts) ==
    LET out == add_announcement(announement_start, peer_ip, prefix, ts) IN
    /\ announement_start' = out.map
    /\ tracker_ret' = out.ret
    /\ tracker_call' = Some([op |-> "add_announcement", peer_ip |-> peer_ip,
                             prefix |-> prefix, ts |-> ts])
    /\ UNCHANGED <<engine_vars, session_vars>>

WithdrawAnnouncement(peer_ip, prefix) ==
    LET out == withdraw_announcement(announement_start, peer_ip, prefix) IN
    /\ announement_start' = out.map
    /\ tracker_ret' = out.ret
    /\ tracker_call' = Some([op |-> "withdraw_announcement", peer_ip |-> peer_ip,
                             prefix |-> prefix])
    /\ UNCHANGED <<engine_vars, session_vars>>

TrackerNext ==
    \/ \E peer_ip \in PeerIps, prefix \in Prefixes, ts \in TrackerTimes :
          AddAnnouncement(peer_ip, prefix, ts)
    \/ \E peer_ip \in PeerIps, prefix \in Prefixes :
          WithdrawAnnouncement(peer_ip, prefix)

TrackerSpec == ComponentInit /\ [][TrackerNext]_vars

---------------------------------------------------------------------------
(* Properties of the hold-timer sweep (Spec).                              *)

\* the step of process_update_file that runs the sweep and returns Ok(())
SweepStep ==
    pc = "update" /\ pc' = "ready" /\ result' = Some("Ok") /\ IsSome(last_ts)

\* the step of process_update_file that consumes one record
RecordStep == pc = "update" /\ nrecords' = nrecords + 1 /\ IsSome(record')

Multiple == IF IsSome(send_hold_time_multiple) THEN Unwrap(send_hold_time_multiple) ELSE 1

\* C1: the end-of-file sweep demotes a non-Idle session last active at T, with
\* negotiated hold time H, multiplier M and batch maximum B, if and only if
\* T + H*M < B; a session with T + H*M >= B keeps its state and its RIB.
\* (Stated for products that fit a u16, so that wrapping plays no part.)
C1_SweepDemotesIffHoldTimeExceeded ==
    [][SweepStep =>
        \A p \in DOMAIN current_state :
            LET s == current_state[p]
                T == Unwrap(s.last_message_timestamp)
                H == Unwrap(s.hold_time)
                B == Unwrap(last_ts)
            IN  (/\ s.connection_state /= "Idle"
                 /\ IsSome(s.last_message_timestamp)
                 /\ IsSome(s.hold_time)
                 /\ H * Multiple < U16)
                => IF T + H * Multiple < B
                   THEN current_state'[p].connection_state = "Idle"
                   ELSE current_state'[p] = s]_vars

\* C2: a session active at the batch maximum is not demoted by that file's
\* sweep: when PeerP has sent Open(hold_time = 90) and then, at t = 205, the
\* latest timestamp of the file, an Update announcing 10.0.0.0/24, PeerP is in
\* OpenSent with that prefix in its RIB after the file.
C2_ActiveAtBatchMaxKeepsSession ==
    [][(/\ SweepStep
        /\ record = Some(MessageRecord(205, PeerP,
                                       Update(<<Announced(Prefix1, Path1)>>, <<>>)))
        /\ last_ts = Some(205)
        /\ PeerP \in DOMAIN current_state
        /\ current_state[PeerP].connection_state = "OpenSent"
        /\ current_state[PeerP].hold_time = Some(90)
        /\ current_state[PeerP].last_message_timestamp = Some(205)
        /\ Prefix1 \in DOMAIN current_state[PeerP].prefix_announcements)
       => (/\ current_state'[PeerP].connection_state = "OpenSent"
           /\ Prefix1 \in DOMAIN current_state'[PeerP].prefix_announcements)]_vars

\* the step that ends the record loop of a file with records and runs the
\* sweep, to its end or to a panic
SweepRun ==
    pc = "update" /\ pc' /= "update" /\ nrecords' = nrecords /\ IsSome(last_ts)

\* C15: for every session the sweep evaluates, the effective hold interval is
\* the exact integer product of the negotiated hold_time (the default when
\* there is none) and the multiplier (1 when none is configured); computing
\* it neither wraps nor aborts.
C15_EffectiveHoldTimeIsExactProduct ==
    [][SweepRun
       => /\ pc' /= "panicked"
          /\ \A p \in DOMAIN current_state :
                LET s == current_state[p]
                    H == IF IsSome(s.hold_time) THEN Unwrap(s.hold_time)
                         ELSE default_hold_time
                IN  (s.connection_state /= "Idle" /\ IsSome(s.last_message_timestamp))
                    => effective_hold_time(s, default_hold_time,
                                           send_hold_time_multiple)
                         = H * Multiple]_vars

\* C16: the sweep never modifies a session that is in Idle when it runs: its
\* RIB, even a non-empty one, its last_message_timestamp and its hold_time
\* stay as they were, however old its last activity is.
C16_SweepLeavesIdleSessionsAlone ==
    [][SweepRun
       => \A p \in DOMAIN current_state :
             current_state[p].connection_state = "Idle"
             => /\ p \in DOMAIN current_state'
                /\ current_state'[p] = current_state[p]]_vars

\* C16 witness: a sweep at batch maximum 600, hold interval 180, has run over
\* PeerP's session, Idle, last active at t = 200, and its route is still there
C16_Witness ==
    /\ pc = "ready"
    /\ result = Some("Ok")
    /\ last_ts = Some(600)
    /\ send_hold_time_multiple = None
    /\ PeerP \in DOMAIN current_state
    /\ current_state[PeerP].connection_state = "Idle"
    /\ current_state[PeerP].hold_time = None
    /\ current_state[PeerP].last_message_timestamp = Some(200)
    /\ DOMAIN current_state[PeerP].prefix_announcements = {Prefix1}

\* C17: process_update_file on a file without records runs no sweep and
\* leaves the whole peer map as it was: no session is demoted, no RIB is
\* cleared, no timestamp changes.
C17_EmptyFileChangesNothing ==
    [][(pc = "update" /\ record = None /\ nrecords' = nrecords /\ pc' /= "update")
       => /\ current_state' = current_state
          /\ pc' = "ready"
          /\ result' = Some("Ok")]_vars

\* C17 witness: a file without records has been processed while PeerP's
\* session, last active at t = 200 with a hold time of 90, was still in
\* OpenSent, the file before having ended in an error at t = 600
C17_Witness ==
    /\ pc = "ready"
    /\ result = Some("Ok")
    /\ record = None
    /\ last_ts = None
    /\ bview_elems = None
    /\ nrecords = 2
    /\ PeerP \in DOMAIN current_state
    /\ current_state[PeerP].connection_state = "OpenSent"
    /\ current_state[PeerP].hold_time = Some(90)
    /\ current_state[PeerP].last_message_timestamp = Some(200)

\* the BGP FSM states by their code in a BGP4MP state change record
StateNames ==
    <<"Idle", "Connect", "Active", "OpenSent", "OpenConfirm", "Established">>

\* C18: a Notification record for peer P leaves P's session in Idle with an
\* empty RIB; a StateChange record for P leaves it in the record's new state,
\* with an empty RIB unless the session was Established and the new state is
\* Established (the exception C4 is about, on which this claim is silent); in
\* both cases a session P did not have is created first, as BgpState::new
\* makes it, and the session of no other peer is modified.
C18_NotificationAndStateChangeDispatch ==
    [][(/\ RecordStep
        /\ \/ Unwrap(record').message.type = "Bgp4MpStateChange"
           \/ /\ Unwrap(record').message.type = "Bgp4MpMessage"
              /\ Unwrap(record').message.bgp_message.type = "Notification")
       => LET r == Unwrap(record')
              p == record_peer(r)
              known == p \in DOMAIN current_state
              after == current_state'[p]
          IN  /\ DOMAIN current_state' = DOMAIN current_state \cup {p}
              /\ \A q \in DOMAIN current_state \ {p} :
                    current_state'[q] = current_state[q]
              /\ IF known
                 THEN /\ after.hold_time = current_state[p].hold_time
                      /\ after.options = current_state[p].options
                 ELSE /\ after.hold_time = None
                      /\ after.options = None
              /\ IF r.message.type = "Bgp4MpStateChange"
                 THEN /\ after.connection_state = StateNames[r.message.new_state]
                      /\ ~(/\ known
                           /\ current_state[p].connection_state = "Established"
                           /\ r.message.new_state = 6)
                         => after.prefix_announcements = EmptyMap
                 ELSE /\ after.connection_state = "Idle"
                      /\ after.prefix_announcements = EmptyMap]_vars

\* C18 witness: a StateChange to Established has created PeerP's session
\* beside PeerQ's, whose route is still in its RIB
C18_Witness ==
    /\ pc = "update"
    /\ nrecords = 2
    /\ record = Some(StateChangeRecord(205, PeerP, 6))
    /\ DOMAIN current_state = {PeerP, PeerQ}
    /\ current_state[PeerP].connection_state = "Established"
    /\ current_state[PeerP].prefix_announcements = EmptyMap
    /\ current_state[PeerP].hold_time = None
    /\ DOMAIN current_state[PeerQ].prefix_announcements = {Prefix1}

---------------------------------------------------------------------------
(* Properties of a single BgpState (SessionSpec, and Spec where a record   *)
(* makes the call).                                                        *)

SessionCall == Unwrap(session_call)
SessionBefore == Unwrap(session_before)
SessionCalled(op) == IsSome(session_call) /\ SessionCall.op = op /\ session_pc = "ready"

\* C3: after any update_connection_state call whose (old state, new state)
\* pair is not (Established, Established), the RIB is empty.
C3_TransitionLeavesRibEmpty ==
    (/\ SessionCalled("update_connection_state")
     /\ ~(SessionBefore.connection_state = "Established"
          /\ SessionCall.new_state = "Established"))
    => session.prefix_announcements = EmptyMap

\* C3 witness: a transition out of Established has emptied a RIB of two routes
C3_Witness ==
    /\ SessionCalled("update_connection_state")
    /\ SessionBefore.connection_state = "Established"
    /\ SessionCall.new_state = "Connect"
    /\ DOMAIN SessionBefore.prefix_announcements = Prefixes
    /\ session.connection_state = "Connect"
    /\ session.prefix_announcements = EmptyMap

\* C4: update_connection_state(ts, Established) on a session that is already
\* Established leaves the RIB as it was.
C4_EstablishedToEstablishedKeepsRib ==
    (/\ SessionCalled("update_connection_state")
     /\ SessionBefore.connection_state = "Established"
     /\ SessionCall.new_state = "Established")
    => session.prefix_announcements = SessionBefore.prefix_announcements

\* the records of an update file that make update_connection_state run
IsTransitionRecord(r) ==
    \/ r.message.type = "Bgp4MpStateChange"
    \/ /\ r.message.type = "Bgp4MpMessage"
       /\ r.message.bgp_message.type \in {"Open", "Notification"}

\* C5: neither update_connection_state nor open_message ever decreases
\* last_message_timestamp, whatever the timestamp of the call.
C5_TransitionNeverRegressesTimestamp ==
    [][(/\ RecordStep
        /\ IsTransitionRecord(Unwrap(record'))
        /\ record_peer(Unwrap(record')) \in DOMAIN current_state
        /\ IsSome(current_state[record_peer(Unwrap(record'))].last_message_timestamp))
       => LET p == record_peer(Unwrap(record'))
          IN  Unwrap(current_state'[p].last_message_timestamp)
                >= Unwrap(current_state[p].last_message_timestamp)]_vars

\* C6: once set, last_message_timestamp is the greatest of all the timestamps
\* handed to the session so far, by whatever methods and in whatever order.
C6_TimestampIsMaxOfAllPassed ==
    IsSome(session.last_message_timestamp)
    => session.last_message_timestamp = session_max_ts

\* C7: a KeepAlive record does to its peer's session what
\* update_last_message_timestamp(ts) does: last_message_timestamp becomes
\* max(current, ts), or ts when none was set; connection_state, hold_time,
\* options and the RIB stay as they were, and so does every other session.
C7_KeepAliveOnlyAdvancesTimestamp ==
    [][(/\ RecordStep
        /\ Unwrap(record').message.type = "Bgp4MpMessage"
        /\ Unwrap(record').message.bgp_message.type = "KeepAlive")
       => LET r == Unwrap(record')
              p == record_peer(r)
              ts == r.common_header.timestamp
              known == p \in DOMAIN current_state
              after == current_state'[p]
          IN  /\ DOMAIN current_state' = DOMAIN current_state \cup {p}
              /\ \A q \in DOMAIN current_state \ {p} :
                    current_state'[q] = current_state[q]
              /\ IF known /\ IsSome(current_state[p].last_message_timestamp)
                 THEN LET old == Unwrap(current_state[p].last_message_timestamp)
                      IN  after.last_message_timestamp
                            = Some(IF old >= ts THEN old ELSE ts)
                 ELSE after.last_message_timestamp = Some(ts)
              /\ IF known
                 THEN /\ after.connection_state = current_state[p].connection_state
                      /\ after.hold_time = current_state[p].hold_time
                      /\ after.options = current_state[p].options
                      /\ after.prefix_announcements
                            = current_state[p].prefix_announcements
                 ELSE /\ after.connection_state = "Idle"
                      /\ after.hold_time = None
                      /\ after.options = None
                      /\ after.prefix_announcements = EmptyMap]_vars

\* C7 witness: a KeepAlive at t = 200 has reached a session last active at
\* t = 205 that is in OpenSent with a hold time and a route
C7_Witness ==
    /\ pc = "update"
    /\ record = Some(MessageRecord(200, PeerP, KeepAlive))
    /\ PeerP \in DOMAIN current_state
    /\ current_state[PeerP].connection_state = "OpenSent"
    /\ current_state[PeerP].hold_time = Some(90)
    /\ current_state[PeerP].last_message_timestamp = Some(205)
    /\ DOMAIN current_state[PeerP].prefix_announcements = {Prefix1}

\* C8: withdraw_prefix is idempotent on the RIB: withdrawing an absent prefix
\* leaves the RIB as it was and does not fail, withdrawing again changes
\* nothing more, and no other prefix's entry is removed or altered.
C8_WithdrawIsIdempotent ==
    SessionCalled("withdraw_prefix")
    => LET p == SessionCall.prefix
           old == SessionBefore.prefix_announcements
           new == session.prefix_announcements
       IN  /\ p \notin DOMAIN old => new = old
           /\ p \notin DOMAIN new
           /\ withdraw_prefix(session, SessionCall.ts, p).prefix_announcements = new
           /\ DOMAIN new = DOMAIN old \ {p}
           /\ \A q \in DOMAIN new : new[q] = old[q]

\* C8 witness: an absent prefix has been withdrawn from a RIB that holds
\* another route
C8_Witness ==
    /\ SessionCalled("withdraw_prefix")
    /\ SessionCall.prefix = Prefix1
    /\ DOMAIN SessionBefore.prefix_announcements = {Prefix2}
    /\ session.prefix_announcements = SessionBefore.prefix_announcements

\* C13: update_prefix given a withdrawal element fails with an error value
\* handed to its caller, the program going on, and leaves the session's RIB,
\* connection state and last_message_timestamp as they were.
C13_WithdrawalElementIsAnErrorValue ==
    (/\ IsSome(session_call)
     /\ SessionCall.op = "update_prefix"
     /\ ~is_announcement(SessionCall.elem))
    => /\ session_pc = "ready"
       /\ session.prefix_announcements = SessionBefore.prefix_announcements
       /\ session.connection_state = SessionBefore.connection_state
       /\ session.last_message_timestamp = SessionBefore.last_message_timestamp

\* C14: open_message, from any prior state, leaves the session in OpenSent
\* with an empty RIB and with hold_time equal to the hold time of the message,
\* whatever hold_time was stored before.
C14_OpenForcesOpenSentAndStoresHoldTime ==
    SessionCalled("open_message")
    => /\ session.connection_state = "OpenSent"
       /\ session.prefix_announcements = EmptyMap
       /\ session.hold_time = Some(SessionCall.msg.hold_time)

\* C14 witness: an Open advertising 30000 has reached an Established session
\* that held a route and a hold time of 90
C14_Witness ==
    /\ SessionCalled("open_message")
    /\ SessionCall.msg.hold_time = 30000
    /\ SessionBefore.connection_state = "Established"
    /\ SessionBefore.hold_time = Some(90)
    /\ SessionBefore.prefix_announcements /= EmptyMap
    /\ session.connection_state = "OpenSent"
    /\ session.hold_time = Some(30000)

\* C19: hold_time is set only by open_message: it is None as long as no
\* open_message has been applied to the session, and afterwards it is the hold
\* time of the latest one; update_connection_state,
\* update_last_message_timestamp, update_prefix and withdraw_prefix never
\* change it.
C19_HoldTimeIsThatOfLatestOpen ==
    session.hold_time = session_open_hold

\* C19 witness: a session that negotiated 30000 has been taken to Idle and
\* still holds 30000
C19_Witness ==
    /\ SessionCalled("update_connection_state")
    /\ SessionCall.new_state = "Idle"
    /\ SessionBefore.connection_state = "OpenSent"
    /\ SessionBefore.hold_time = Some(30000)
    /\ session.connection_state = "Idle"
    /\ session.hold_time = Some(30000)

\* C20: update_prefix is last-write-wins per prefix: after an announcement
\* for prefix p the RIB entry of p is that announcement, whatever was stored
\* for p before and even when the stored one carries a later timestamp; the
\* entries of all other prefixes are as they were. (The RIB being a map from
\* prefix to route, it holds one entry per prefix at most.)
C20_AnnouncementIsLastWriteWins ==
    SessionCalled("update_prefix")
    => LET elem == SessionCall.elem
           p == elem.prefix
           old == SessionBefore.prefix_announcements
           new == session.prefix_announcements
       IN  /\ DOMAIN new = DOMAIN old \cup {p}
           /\ new[p].timestamp = elem.timestamp
           /\ new[p].as_path = elem.as_path
           /\ \A q \in DOMAIN old \ {p} : new[q] = old[q]

\* C20 witness: the route announced at t = 200 has replaced, for 10.0.0.0/24,
\* a route announced at t = 205 over another path, beside the route of
\* 192.0.2.0/24
C20_Witness ==
    /\ SessionCalled("update_prefix")
    /\ SessionCall.elem = BgpElem("ANNOUNCE", 200, PeerP, Prefix1, Path1)
    /\ DOMAIN SessionBefore.prefix_announcements = Prefixes
    /\ SessionBefore.prefix_announcements[Prefix1].timestamp = 205
    /\ SessionBefore.prefix_announcements[Prefix1].as_path = Path2
    /\ session.prefix_announcements[Prefix1].timestamp = 200
    /\ session.prefix_announcements[Prefix1].as_path = Path1
    /\ session.prefix_announcements[Prefix2]
         = SessionBefore.prefix_announcements[Prefix2]

---------------------------------------------------------------------------
(* Properties of the AnnouncementTracker (TrackerSpec).                    *)

TrackerCall == Unwrap(tracker_call)
TrackerKey(c) == PeerPrefix(c.peer_ip, c.prefix)

\* C9: add_announcement returns None when no start is stored for the key and
\* otherwise the start stored before the call; after the call the stored start
\* is ts, and the entries of all other keys are as they were.
C9_AddReturnsPriorAndStoresNew ==
    [][(IsSome(tracker_call') /\ Unwrap(tracker_call').op = "add_announcement")
       => LET c == Unwrap(tracker_call')
              key == TrackerKey(c)
          IN  /\ tracker_ret' = IF key \in DOMAIN announement_start
                                THEN Some(announement_start[key])
                                ELSE None
              /\ DOMAIN announement_start' = DOMAIN announement_start \cup {key}
              /\ announement_start'[key] = c.ts
              /\ \A k \in DOMAIN announement_start \ {key} :
                    announement_start'[k] = announement_start[k]]_vars

\* C9 witness: a start of 10 has been renewed at 30, beside another key's entry
C9_Witness ==
    /\ tracker_call = Some([op |-> "add_announcement", peer_ip |-> PeerP.address,
                            prefix |-> Prefix1, ts |-> 30])
    /\ tracker_ret = Some(10)
    /\ announement_start[PeerPrefix(PeerP.address, Prefix1)] = 30
    /\ PeerPrefix(PeerQ.address, Prefix1) \in DOMAIN announement_start

\* C10: withdraw_announcement removes the entry and returns the start stored
\* last for the key, or None when there is none; the add_announcement that
\* follows for the same key returns None and starts a new run at its ts.
C10_WithdrawReturnsStartAndEndsRun ==
    [][/\ (IsSome(tracker_call') /\ Unwrap(tracker_call').op = "withdraw_announcement")
          => LET key == TrackerKey(Unwrap(tracker_call'))
             IN  /\ tracker_ret' = IF key \in DOMAIN announement_start
                                   THEN Some(announement_start[key])
                                   ELSE None
                 /\ DOMAIN announement_start' = DOMAIN announement_start \ {key}
                 /\ \A k \in DOMAIN announement_start' :
                       announement_start'[k] = announement_start[k]
       /\ (/\ IsSome(tracker_call)
           /\ TrackerCall.op = "withdraw_announcement"
           /\ IsSome(tracker_call')
           /\ Unwrap(tracker_call').op = "add_announcement"
           /\ TrackerKey(Unwrap(tracker_call')) = TrackerKey(TrackerCall))
          => /\ tracker_ret' = None
             /\ announement_start'[TrackerKey(TrackerCall)] = Unwrap(tracker_call').ts
      ]_vars

\* C10 witness: the run announced at 10 has been ended: the call returned 10
\* and the key is gone, another key's entry is still there
C10_Witness ==
    /\ tracker_call = Some([op |-> "withdraw_announcement",
                            peer_ip |-> PeerP.address, prefix |-> Prefix1])
    /\ tracker_ret = Some(10)
    /\ PeerPrefix(PeerP.address, Prefix1) \notin DOMAIN announement_start
    /\ PeerPrefix(PeerP.address, Prefix2) \in DOMAIN announement_start

---------------------------------------------------------------------------
(* Properties of process_bview and of the record loop of                   *)
(* process_update_file (Spec).                                             *)

\* the peers that appear in the elements of a snapshot
SnapshotPeers(elems) == {from_elem(elems[i]) : i \in 1..Len(elems)}

\* the RIB a peer's elements build from an empty RIB, the first i elements of
\* the snapshot taken in file order: an ANNOUNCE stores its route under its
\* prefix, a WITHDRAW removes the prefix
RECURSIVE SnapshotRib(_, _, _)
SnapshotRib(elems, peer, i) ==
    IF i = 0 THEN EmptyMap
    ELSE LET rib == SnapshotRib(elems, peer, i - 1)
             e == elems[i]
         IN  IF from_elem(e) /= peer THEN rib
             ELSE IF e.elem_type = "ANNOUNCE"
                  THEN [x \in DOMAIN rib \cup {e.prefix} |->
                           IF x = e.prefix THEN from_bgp_elem(e).value ELSE rib[x]]
                  ELSE [x \in DOMAIN rib \ {e.prefix} |-> rib[x]]

\* process_bview has returned Ok(()) and nothing has been called since
BviewLoaded == pc = "ready" /\ result = Some("Ok") /\ IsSome(bview_elems)

\* C11: after a successful process_bview, whatever the peer map held before,
\* the map holds exactly the peers of the snapshot's elements, each session is
\* Idle with no hold_time, and each RIB is what the peer's ANNOUNCE/WITHDRAW
\* elements, applied in file order to an empty RIB, build.
C11_BviewReplacesAllState ==
    BviewLoaded
    => LET elems == Unwrap(bview_elems) IN
       /\ DOMAIN current_state = SnapshotPeers(elems)
       /\ \A p \in DOMAIN current_state :
            /\ current_state[p].connection_state = "Idle"
            /\ current_state[p].hold_time = None
            /\ current_state[p].prefix_announcements
                 = SnapshotRib(elems, p, Len(elems))

\* C11 witness: after two records of an update file, a snapshot in which
\* PeerP announces only 10.0.0.0/24 has been loaded: PeerP's RIB holds
\* exactly that prefix and PeerP is the only peer
C11_Witness ==
    /\ BviewLoaded
    /\ nrecords = 3
    /\ bview_elems = Some(<<BgpElem("ANNOUNCE", 200, PeerP, Prefix1, Path1)>>)
    /\ DOMAIN current_state = {PeerP}
    /\ DOMAIN current_state[PeerP].prefix_announcements = {Prefix1}

\* a record of an update file that is not a Bgp4Mp record
IsUnsupportedRecord(r) ==
    r.message.type \notin {"Bgp4MpMessage", "Bgp4MpStateChange"}

\* C12: when process_update_file meets a record that is not a session or
\* message record, it returns an error at that record: the loop is left (no
\* later record is applied, the sweep does not run) and the peer map is what
\* the records before it made of it.
C12_UnsupportedRecordStopsFile ==
    [][(RecordStep /\ IsUnsupportedRecord(Unwrap(record')))
       => /\ pc' = "ready"
          /\ result' = Some("Err")
          /\ current_state' = current_state]_vars

\* C12 witness: a table dump record at t = 600 has ended a file whose first
\* two records, an Open and an Update of PeerP, are still in the map: PeerP,
\* last active at t = 205, has not been swept
C12_Witness ==
    /\ pc = "ready"
    /\ result = Some("Err")
    /\ record = Some(TableDumpRecord(600))
    /\ last_ts = Some(600)
    /\ PeerP \in DOMAIN current_state
    /\ current_state[PeerP].connection_state = "OpenSent"
    /\ current_state[PeerP].hold_time = Some(90)
    /\ current_state[PeerP].last_message_timestamp = Some(205)
    /\ DOMAIN current_state[PeerP].prefix_announcements = {Prefix1}

\* C21: update processing never destroys a session: whatever
\* process_update_file does (records, an error return, a sweep that demotes
\* peers), no peer leaves the map; the only step that removes sessions is the
\* clear at the start of process_bview.
C21_OnlyBviewRemovesSessions ==
    [][\/ DOMAIN current_state \subseteq DOMAIN current_state'
       \/ /\ pc = "ready"
          /\ bview_elems' = Some(<<>>)
          /\ current_state' = EmptyMap]_vars

\* C21 witness: the sweep of a file that ended with PeerP's Open has demoted
\* PeerP, and PeerP's session is still in the map, beside PeerQ's
C21_Witness ==
    /\ pc = "ready"
    /\ result = Some("Ok")
    /\ record = Some(MessageRecord(205, PeerP, Open([hold_time |-> 90,
                                                     opt_params |-> <<>>])))
    /\ DOMAIN current_state = {PeerP, PeerQ}
    /\ current_state[PeerP].connection_state = "Idle"
    /\ current_state[PeerP].hold_time = Some(90)

\* C22: in every reachable state of the processor, a session that is not in
\* Idle has a last_message_timestamp: the sweep's `if let Some(last_message_ts)`
\* never fails for a session it has not skipped as Idle.
C22_NonIdleSessionHasTimestamp ==
    \A p \in DOMAIN current_state :
        current_state[p].connection_state /= "Idle"
        => IsSome(current_state[p].last_message_timestamp)

\* C22 witness: the first record seen for PeerP, a StateChange to Established
\* at t = 200, has created its session, which carries that timestamp
C22_Witness ==
    /\ pc = "update"
    /\ nrecords = 1
    /\ record = Some(StateChangeRecord(200, PeerP, 6))
    /\ DOMAIN current_state = {PeerP}
    /\ current_state[PeerP].connection_state = "Established"
    /\ current_state[PeerP].last_message_timestamp = Some(200)

====
